---- MODULE Spec2Model ----
(***************************************************************************)
(* Model of the Citrus agent (src/src/agent.js, class CitrusAgent, the     *)
(* variant of lines 387-868): the control channel (connect, open, close,   *)
(* reconnect, heartbeat), the outbound send primitive, the command         *)
(* dispatcher and the self-update handlers.                                *)
(*                                                                         *)
(* One action is one run-to-completion callback of the Node event loop: a  *)
(* socket event handler, a timer callback, or the continuation of an async *)
(* handler after an awaited subprocess has finished.                       *)
(*                                                                         *)
(* Telemetry (collectStatus) is an opaque collaborator: only the fact that *)
(* it is awaited between the timer firing and the send is modelled.        *)
(***************************************************************************)
EXTENDS Naturals, Sequences, FiniteSets, TLC

----------------------------------------------------------------------------
(* Program constants *)

reconnectTimeout == 5000

----------------------------------------------------------------------------
(* Bounds of the model *)

MaxSockets == 2

MaxIntervals == 3

MaxCmds == 2

MaxTicks == 1

MaxEvents == 2

MaxChunks == 2

MaxStreak == 2

----------------------------------------------------------------------------
(* Value sets *)

Sockets == 1..MaxSockets

IntervalIds == 1..MaxIntervals

Revs == {"r1", "r2"}

\* The ten command kinds of the specification's table.
TableKinds ==
  {"create_site", "delete_site", "deploy_ssl", "redeploy_ssl", "turn_off_ssl",
   "site_info", "update_agent", "system_update", "rollback_agent", "key_rotation"}

\* Values of message.type: the table's kinds, a type outside the table, and
\* "undefined" for a decoded object that carries no type field.
Types == TableKinds \cup {"bogus", "undefined"}

NoFrame == [kind |-> "none", type |-> "none", commitId |-> "none", newKey |-> "none"]

\* Inbound frames: one that JSON.parse rejects, the JSON text null, and objects.
Frames ==
  {[NoFrame EXCEPT !.kind = "bad"], [NoFrame EXCEPT !.kind = "null"]}
  \cup {[NoFrame EXCEPT !.kind = "obj", !.type = t] : t \in Types \ {"key_rotation"}}
  \cup {[NoFrame EXCEPT !.kind = "obj", !.type = "rollback_agent", !.commitId = "r1"]}
  \cup {[NoFrame EXCEPT !.kind = "obj", !.type = "key_rotation", !.newKey = "k1"]}

\* An outbound payload.  cmd is the index (in received) of the frame whose
\* handling produced it, 0 for the channel's own messages.
Msg(type, op, status, info, cmd) ==
  [type |-> type, op |-> op, status |-> status, info |-> info, cmd |-> cmd]

\* The text fields of a payload (error, message, output, version): a text, the
\* value interpolated into it, and the number of the chunk or the exit code.
Info(text, arg, n) == <<text, arg, n>>

NoInfo == Info("none", "none", 0)

----------------------------------------------------------------------------
VARIABLES
  alive,           \* the process runs (FALSE after process.exit)
  started,         \* start() has run
  ws,              \* this.ws: 0 for null, else a socket
  readyState,      \* readyState of every socket object
  keyUsed,         \* x-agent-key header each socket was created with
  agentKey,        \* this.agentKey
  statusInterval,  \* this.statusInterval: 0 for null, else an interval handle
  activeIntervals, \* interval timers that are scheduled (not cleared)
  timerStart,      \* number of frames already on the wire when an interval was set
  reconnectTimers, \* pending setTimeout(() => this.connect(), d): their delays
  failStreak,      \* consecutive connection attempts closed without opening
  ticks,           \* heartbeat callbacks awaiting collectStatus()
  nTicks,          \* heartbeat firings so far
  wire,            \* frames transmitted on the socket this.ws, in order
  received,        \* inbound frames delivered so far
  tasks,           \* handler invocations, in flight or finished
  head             \* revision the working tree is at

vars == <<alive, started, ws, readyState, keyUsed, agentKey, statusInterval,
          activeIntervals, timerStart, reconnectTimers, failStreak, ticks,
          nTicks, wire, received, tasks, head>>

chanVars == <<ws, readyState, keyUsed, statusInterval, activeIntervals,
              timerStart, reconnectTimers, failStreak>>

----------------------------------------------------------------------------
(* send *)

sendUnguarded(w, sock, rs, m) ==
  Append(w, m @@ [rs |-> IF sock = 0 THEN "NONE" ELSE rs[sock]])

\* send(message): transmit on this.ws only if it exists and is OPEN; otherwise
\* the payload is discarded.
send(w, sock, rs, m) ==
  IF sock # 0 /\ rs[sock] = "OPEN"
    THEN Append(w, m @@ [rs |-> rs[sock]])
    ELSE w

RECURSIVE sendAll(_, _, _, _)
\* Consecutive send() calls of one callback, in order.
sendAll(w, sock, rs, ms) ==
  IF ms = <<>> THEN w
  ELSE sendAll(send(w, sock, rs, Head(ms)), sock, rs, Tail(ms))

----------------------------------------------------------------------------
(* Heartbeat timer *)

\* clearInterval(handle): a cleared or null handle is a no-op.
clearInterval(active, handle) == active \ {handle}

\* The handle setInterval returns: an object distinct from every handle still
\* scheduled (the handle of a cleared timer names nothing any more).
NewInterval(active) ==
  CHOOSE i \in IntervalIds : i \notin active /\ \A j \in IntervalIds \ active : i <= j

CanSetInterval(active) == IntervalIds \ active # {}

startStatusUpdatesNoHandle(active, cur) ==
  [active |-> active \cup {NewInterval(active)}, cur |-> cur,
   new |-> NewInterval(active)]

\* startStatusUpdates(): clear the existing interval, set a new one and keep
\* its handle in this.statusInterval.
startStatusUpdates(active, cur) ==
  LET cleared == IF cur # 0 THEN clearInterval(active, cur) ELSE active
      h == NewInterval(cleared)
  IN [active |-> cleared \cup {h}, cur |-> h, new |-> h]

----------------------------------------------------------------------------
(* connect *)

\* Sockets that do not exist or have emitted 'close': no event of theirs follows.
Gone == {s \in Sockets : readyState[s] \in {"NONE", "CLOSED"}}

HasNewSocket == Gone # {}

\* The object new WebSocket(...) returns: no socket that is still live (the
\* name of a closed socket, which no event refers to any more, is used again).
NewSocket == CHOOSE s \in Gone : \A t \in Gone : s <= t

\* connect(): this.ws = new WebSocket(url, headers with this.agentKey).
connect ==
  /\ HasNewSocket
  /\ ws' = NewSocket
  /\ readyState' = [readyState EXCEPT ![NewSocket] = "CONNECTING"]
  /\ keyUsed' = [keyUsed EXCEPT ![NewSocket] = agentKey]
  /\ wire' = <<>>

\* start(): await getGitVersion(), then connect().
Start ==
  /\ alive /\ ~started
  /\ started' = TRUE
  /\ connect
  /\ UNCHANGED <<alive, agentKey, statusInterval, activeIntervals, timerStart,
                 reconnectTimers, failStreak, ticks, nTicks, received, tasks, head>>

OnOpenNoClearState(s) ==
  /\ alive /\ readyState[s] = "CONNECTING"
  /\ CanSetInterval(activeIntervals \ {statusInterval})
  /\ LET rs == [readyState EXCEPT ![s] = "OPEN"]
         w1 == send(wire, ws, rs, Msg("agent_connected", "none", "none", NoInfo, 0))
         hb == startStatusUpdates(activeIntervals, statusInterval)
     IN /\ readyState' = rs
        /\ wire' = w1
        /\ activeIntervals' = hb.active
        /\ statusInterval' = hb.cur
        /\ timerStart' = [timerStart EXCEPT ![hb.new] = Len(w1)]
  /\ failStreak' = 0
  /\ UNCHANGED <<alive, started, ws, keyUsed, agentKey, reconnectTimers, ticks,
                 nTicks, received, tasks, head>>

\* ws.on('open'): the socket is OPEN when the handler runs; it sends
\* agent_connected, then clear_command_state, then starts the heartbeat.
OnOpen(s) ==
  /\ alive /\ readyState[s] = "CONNECTING"
  /\ CanSetInterval(activeIntervals \ {statusInterval})
  /\ LET rs == [readyState EXCEPT ![s] = "OPEN"]
         w1 == send(wire, ws, rs, Msg("agent_connected", "none", "none", NoInfo, 0))
         w2 == send(w1, ws, rs, Msg("clear_command_state", "none", "none", NoInfo, 0))
         hb == startStatusUpdates(activeIntervals, statusInterval)
     IN /\ readyState' = rs
        /\ wire' = w2
        /\ activeIntervals' = hb.active
        /\ statusInterval' = hb.cur
        /\ timerStart' = [timerStart EXCEPT ![hb.new] = Len(w2)]
  /\ failStreak' = 0
  /\ UNCHANGED <<alive, started, ws, keyUsed, agentKey, reconnectTimers, ticks,
                 nTicks, received, tasks, head>>

OnErrorStopsHeartbeat(s) ==
  /\ alive /\ readyState[s] \in {"CONNECTING", "OPEN"}
  /\ readyState' = [readyState EXCEPT ![s] = "CLOSING"]
  /\ activeIntervals' = clearInterval(activeIntervals, statusInterval)
  /\ UNCHANGED <<alive, started, ws, keyUsed, agentKey, statusInterval,
                 timerStart, reconnectTimers, failStreak, ticks,
                 nTicks, wire, received, tasks, head>>

OnErrorReconnect(s) ==
  /\ alive /\ readyState[s] \in {"CONNECTING", "OPEN"}
  /\ readyState' = [readyState EXCEPT ![s] = "CLOSING"]
  /\ reconnectTimers' = Append(reconnectTimers, reconnectTimeout)
  /\ UNCHANGED <<alive, started, ws, keyUsed, agentKey, statusInterval,
                 activeIntervals, timerStart, failStreak, ticks,
                 nTicks, wire, received, tasks, head>>

\* ws.on('error'): the transport has failed (the socket is CLOSING when the
\* event is emitted); the handler only logs.
OnError(s) ==
  /\ alive /\ readyState[s] \in {"CONNECTING", "OPEN"}
  /\ readyState' = [readyState EXCEPT ![s] = "CLOSING"]
  /\ UNCHANGED <<alive, started, ws, keyUsed, agentKey, statusInterval,
                 activeIntervals, timerStart, reconnectTimers, failStreak, ticks,
                 nTicks, wire, received, tasks, head>>

\* The controller ends the session: the socket is CLOSING until 'close' is emitted.
PeerClose(s) ==
  /\ alive /\ readyState[s] = "OPEN"
  /\ readyState' = [readyState EXCEPT ![s] = "CLOSING"]
  /\ UNCHANGED <<alive, started, ws, keyUsed, agentKey, statusInterval,
                 activeIntervals, timerStart, reconnectTimers, failStreak, ticks,
                 nTicks, wire, received, tasks, head>>

OnCloseTwice(s) ==
  /\ alive /\ readyState[s] = "CLOSING"
  /\ readyState' = [readyState EXCEPT ![s] = "CLOSED"]
  /\ activeIntervals' = clearInterval(activeIntervals, statusInterval)
  /\ reconnectTimers' = reconnectTimers \o <<reconnectTimeout, reconnectTimeout>>
  /\ failStreak' = IF wire = <<>> /\ failStreak < MaxStreak
                     THEN failStreak + 1 ELSE failStreak
  /\ ticks' = [i \in DOMAIN ticks |-> [ticks[i] EXCEPT !.stale = TRUE]]
  /\ UNCHANGED <<alive, started, ws, keyUsed, agentKey, statusInterval,
                 timerStart, nTicks, wire, received, tasks, head>>

OnCloseGiveUp(s) ==
  /\ alive /\ readyState[s] = "CLOSING"
  /\ readyState' = [readyState EXCEPT ![s] = "CLOSED"]
  /\ activeIntervals' = clearInterval(activeIntervals, statusInterval)
  /\ reconnectTimers' = IF failStreak < MaxStreak
                          THEN Append(reconnectTimers, reconnectTimeout)
                          ELSE reconnectTimers
  /\ failStreak' = IF wire = <<>> /\ failStreak < MaxStreak
                     THEN failStreak + 1 ELSE failStreak
  /\ ticks' = [i \in DOMAIN ticks |-> [ticks[i] EXCEPT !.stale = TRUE]]
  /\ UNCHANGED <<alive, started, ws, keyUsed, agentKey, statusInterval,
                 timerStart, nTicks, wire, received, tasks, head>>

OnCloseCancelsHandlers(s) ==
  /\ alive /\ readyState[s] = "CLOSING"
  /\ readyState' = [readyState EXCEPT ![s] = "CLOSED"]
  /\ activeIntervals' = clearInterval(activeIntervals, statusInterval)
  /\ reconnectTimers' = Append(reconnectTimers, reconnectTimeout)
  /\ failStreak' = IF wire = <<>> /\ failStreak < MaxStreak
                     THEN failStreak + 1 ELSE failStreak
  /\ ticks' = [i \in DOMAIN ticks |-> [ticks[i] EXCEPT !.stale = TRUE]]
  /\ tasks' = [j \in DOMAIN tasks |->
                IF tasks[j].pc \in {"done", "exited"} THEN tasks[j]
                ELSE [tasks[j] EXCEPT !.pc = "done"]]
  /\ UNCHANGED <<alive, started, ws, keyUsed, agentKey, statusInterval,
                 timerStart, nTicks, wire, received, head>>

OnCloseKeepTimer(s) ==
  /\ alive /\ readyState[s] = "CLOSING"
  /\ readyState' = [readyState EXCEPT ![s] = "CLOSED"]
  /\ activeIntervals' = activeIntervals
  /\ reconnectTimers' = Append(reconnectTimers, reconnectTimeout)
  /\ failStreak' = IF wire = <<>> /\ failStreak < MaxStreak
                     THEN failStreak + 1 ELSE failStreak
  /\ ticks' = [i \in DOMAIN ticks |-> [ticks[i] EXCEPT !.stale = TRUE]]
  /\ UNCHANGED <<alive, started, ws, keyUsed, agentKey, statusInterval,
                 timerStart, nTicks, wire, received, tasks, head>>

\* ws.on('close'): clearInterval(this.statusInterval), then
\* setTimeout(() => this.connect(), this.reconnectTimeout).
OnClose(s) ==
  /\ alive /\ readyState[s] = "CLOSING"
  /\ readyState' = [readyState EXCEPT ![s] = "CLOSED"]
  /\ activeIntervals' = clearInterval(activeIntervals, statusInterval)
  /\ reconnectTimers' = Append(reconnectTimers, reconnectTimeout)
  /\ failStreak' = IF wire = <<>> /\ failStreak < MaxStreak
                     THEN failStreak + 1 ELSE failStreak
  /\ ticks' = [i \in DOMAIN ticks |-> [ticks[i] EXCEPT !.stale = TRUE]]
  /\ UNCHANGED <<alive, started, ws, keyUsed, agentKey, statusInterval,
                 timerStart, nTicks, wire, received, tasks, head>>

\* The reconnect timer fires: () => this.connect().
ReconnectFire ==
  /\ alive /\ reconnectTimers # <<>>
  /\ reconnectTimers' = Tail(reconnectTimers)
  /\ connect
  /\ UNCHANGED <<alive, started, agentKey, statusInterval, activeIntervals,
                 timerStart, failStreak, ticks, nTicks, received, tasks, head>>

\* The interval timer fires: the callback starts and awaits collectStatus().
HeartbeatFire(iv) ==
  /\ alive /\ iv \in activeIntervals
  /\ nTicks < MaxTicks /\ Len(received) + nTicks < MaxEvents
  /\ nTicks' = nTicks + 1
  /\ ticks' = Append(ticks, [timer |-> iv, stale |-> FALSE])
  /\ UNCHANGED <<alive, started, chanVars, agentKey, wire, received, tasks, head>>

\* collectStatus() resolves: send({type: 'status_update', status}).
StatusCollected ==
  /\ alive /\ ticks # <<>>
  /\ ticks' = Tail(ticks)
  /\ wire' = send(wire, ws, readyState,
                 Msg("status_update", "none", "none",
                     Info("status", IF Head(ticks).stale THEN "afterClose" ELSE "none", 0),
                     0))
  /\ UNCHANGED <<alive, started, chanVars, agentKey, nTicks, received, tasks, head>>

----------------------------------------------------------------------------
(* Command dispatcher *)

handleMessageFallThrough(type) ==
  CASE type = "update_agent" -> <<"handleUpdateAgent", "handleSystemUpdate">>
    [] type = "system_update" -> <<"handleSystemUpdate">>
    [] type = "rollback_agent" -> <<"handleRollbackAgent">>
    [] type = "key_rotation" -> <<"handleKeyRotation">>
    [] OTHER -> <<>>

\* handleMessage's switch (message.type): the handlers it awaits; none for the
\* default branch.
handleMessage(type) ==
  CASE type = "update_agent" -> <<"handleUpdateAgent">>
    [] type = "system_update" -> <<"handleSystemUpdate">>
    [] type = "rollback_agent" -> <<"handleRollbackAgent">>
    [] type = "key_rotation" -> <<"handleKeyRotation">>
    [] OTHER -> <<>>

unknownTypeLogOnly(type, c) == <<>>

\* The default branch: send({type: 'error', error: `Unknown message type: ${message.type}`}).
unknownType(type, c) ==
  <<Msg("error", "none", "none", Info("Unknown message type", type, 0), c)>>

\* this.updateKeyFile(newKey): the class defines no such method, so the call
\* throws a TypeError.
updateKeyFile(newKey) == "TypeError"

\* send() as one handler invocation sees it: the payloads ms it passes to
\* send(), each with tx telling whether send() transmitted it (this.ws was
\* open) or discarded it.
sent(sock, rs, ms) ==
  [k \in 1..Len(ms) |-> ms[k] @@ [tx |-> (sock # 0 /\ rs[sock] = "OPEN")]]

\* The exit code of a child that has not exited (exit codes are 0..255).
NoCode == 256

\* What a git reset that exits with code 0 may have written to its standard
\* error: nothing, or a text holding one of the failure markers.
Diagnostics == {"", "fatal:"}

\* A handler invocation: reports are the payloads it has passed to send() so
\* far, code is the exit code of its child process, stderr the diagnostic
\* text of its git reset ("none" before the reset has ended).
NewTask(c, h, pc) ==
  [cmd |-> c, h |-> h, pc |-> pc, before |-> "none", after |-> "none", chunks |-> 0,
   code |-> NoCode, stderr |-> "none", reports |-> <<>>]

keyAssignedFirst(key, newKey) == newKey

\* handleKeyRotation: this.agentKey = newKey is reached only when
\* updateKeyFile(newKey) has not thrown.
keyAfterRotation(key, newKey) ==
  IF updateKeyFile(newKey) = "ok" THEN newKey ELSE key

\* What a handler does before its first await: the payloads it sends, the pc
\* it is left at, and the agent key afterwards.
handlerStart(h, f, c, key) ==
  CASE h = "handleUpdateAgent" ->
         [msgs |-> <<Msg("status", "update_agent", "starting", NoInfo, c)>>,
          pc |-> "fetch", key |-> key]
    [] h = "handleSystemUpdate" ->
         [msgs |-> <<Msg("status", "system_update", "starting", NoInfo, c)>>,
          pc |-> "test", key |-> key]
    [] h = "handleRollbackAgent" ->
         [msgs |-> <<Msg("rollback_operation", "none", "starting", NoInfo, c)>>,
          pc |-> "fetch", key |-> key]
    [] h = "handleKeyRotation" ->
         IF updateKeyFile(f.newKey) = "ok"
           THEN [msgs |-> <<Msg("key_rotation", "none", "completed", NoInfo, c)>>,
                 pc |-> "done", key |-> keyAfterRotation(key, f.newKey)]
           ELSE [msgs |-> <<Msg("key_rotation", "none", "failed",
                                Info(updateKeyFile(f.newKey), "none", 0), c)>>,
                 pc |-> "done", key |-> keyAfterRotation(key, f.newKey)]

RECURSIVE startAll(_, _, _, _, _, _)
\* The handlers handleMessage invokes for frame f (command c), run up to
\* their first await: [msgs, tasks, key].
startAll(hs, f, c, key, sock, rs) ==
  IF hs = <<>> THEN [msgs |-> <<>>, tasks |-> <<>>, key |-> key]
  ELSE LET st == handlerStart(Head(hs), f, c, key)
           rest == startAll(Tail(hs), f, c, st.key, sock, rs)
       IN [msgs |-> st.msgs \o rest.msgs,
           tasks |-> <<[NewTask(c, Head(hs), st.pc) EXCEPT
                          !.reports = sent(sock, rs, st.msgs)]>> \o rest.tasks,
           key |-> rest.key]

\* JSON.parse(data) throws a SyntaxError on text that is not JSON; it returns
\* null for the text null, and reading message.type of null throws a TypeError.
decode(f) ==
  CASE f.kind = "bad" -> "SyntaxError"
    [] f.kind = "null" -> "TypeError"
    [] OTHER -> "ok"

decodeErrorLogOnly(f, c) == <<>>

\* The catch of the message handler: send({type: 'error', error: error.message,
\* originalMessage: data.toString()}).
decodeError(f, c) ==
  <<Msg("error", "none", "none", Info(decode(f), f.kind, 0), c)>>

OnMessageSerialized(s, f) ==
  /\ alive /\ readyState[s] = "OPEN"
  /\ \A j \in DOMAIN tasks : tasks[j].pc \in {"done", "exited"}
  /\ Len(received) < MaxCmds /\ Len(received) + nTicks < MaxEvents
  /\ LET c == Len(received) + 1
         hs == handleMessage(f.type)
         run == startAll(hs, f, c, agentKey, ws, readyState)
     IN /\ received' = Append(received, f)
        /\ IF decode(f) # "ok"
             THEN /\ wire' = sendAll(wire, ws, readyState, decodeError(f, c))
                  /\ UNCHANGED <<tasks, agentKey>>
           ELSE IF hs = <<>>
             THEN /\ wire' = sendAll(wire, ws, readyState, unknownType(f.type, c))
                  /\ UNCHANGED <<tasks, agentKey>>
           ELSE /\ wire' = sendAll(wire, ws, readyState, run.msgs)
                /\ tasks' = tasks \o run.tasks
                /\ agentKey' = run.key
  /\ UNCHANGED <<alive, started, chanVars, ticks, nTicks, head>>

\* ws.on('message'): JSON.parse(data), log message.type, await handleMessage;
\* the catch sends {type: 'error', error, originalMessage}.  The transport
\* emits 'message' on an open socket; the handler runs up to the first await
\* of the handler it dispatches to.
OnMessage(s, f) ==
  /\ alive /\ readyState[s] = "OPEN"
  /\ Len(received) < MaxCmds /\ Len(received) + nTicks < MaxEvents
  /\ LET c == Len(received) + 1
         hs == handleMessage(f.type)
         run == startAll(hs, f, c, agentKey, ws, readyState)
     IN /\ received' = Append(received, f)
        /\ IF decode(f) # "ok"
             THEN /\ wire' = sendAll(wire, ws, readyState, decodeError(f, c))
                  /\ UNCHANGED <<tasks, agentKey>>
           ELSE IF hs = <<>>
             THEN /\ wire' = sendAll(wire, ws, readyState, unknownType(f.type, c))
                  /\ UNCHANGED <<tasks, agentKey>>
           ELSE /\ wire' = sendAll(wire, ws, readyState, run.msgs)
                /\ tasks' = tasks \o run.tasks
                /\ agentKey' = run.key
  /\ UNCHANGED <<alive, started, chanVars, ticks, nTicks, head>>

reportOnOwnSocket(i, pc, ms) ==
  LET own == \E n \in DOMAIN wire :
               wire[n].cmd = tasks[i].cmd /\ wire[n].status = "starting"
  IN /\ wire' = IF own THEN sendAll(wire, ws, readyState, ms) ELSE wire
     /\ tasks' = [tasks EXCEPT
          ![i].pc = pc,
          ![i].reports = @ \o IF own THEN sent(ws, readyState, ms) ELSE sent(0, readyState, ms)]

\* A handler invocation sends ms and goes on to pc.
report(i, pc, ms) ==
  /\ wire' = sendAll(wire, ws, readyState, ms)
  /\ tasks' = [tasks EXCEPT ![i].pc = pc,
                            ![i].reports = @ \o sent(ws, readyState, ms)]

failUncaught(i, ms) ==
  /\ tasks' = [tasks EXCEPT ![i].pc = "done"]
  /\ UNCHANGED wire

\* An awaited step of a handler throws: the handler's catch sends its failed
\* report and the invocation ends.
fail(i, ms) == report(i, "done", ms)

----------------------------------------------------------------------------
(* handleUpdateAgent *)

UpdateFailed(c) == Msg("status", "update_agent", "failed", Info("error", "none", 0), c)

\* The reports of an update that found nothing new: status completed, then
\* agent_updated.
upToDate(c) ==
  <<Msg("status", "update_agent", "completed",
        Info("Agent code is already up to date.", "none", 0), c),
    Msg("agent_updated", "none", "success",
        Info("Agent is already up to date", "none", 0), c)>>

alwaysRestart(beforeVersion, afterVersion) == FALSE

\* if (beforeVersion === afterVersion): the reset brought nothing new.
alreadyUpToDate(beforeVersion, afterVersion) == beforeVersion = afterVersion

\* The report of an update that installed revision v.
agentUpdated(v, c) == Msg("agent_updated", "none", "success", Info("version", v, 0), c)

\* An awaited git / npm command of handleUpdateAgent finishes.
UpdateAgentStep(i) ==
  /\ alive /\ i \in DOMAIN tasks
  /\ tasks[i].h = "handleUpdateAgent"
  /\ tasks[i].pc \in {"fetch", "rev1", "reset", "rev2", "npm"}
  /\ LET t == tasks[i]
         c == t.cmd
     IN \/ \* the command fails: the catch reports failed
           /\ fail(i, <<UpdateFailed(c)>>)
           /\ UNCHANGED head
        \/ /\ t.pc = "fetch"
           /\ tasks' = [tasks EXCEPT ![i].pc = "rev1"]
           /\ UNCHANGED <<wire, head>>
        \/ /\ t.pc = "rev1"
           /\ tasks' = [tasks EXCEPT ![i].pc = "reset", ![i].before = head]
           /\ UNCHANGED <<wire, head>>
        \/ \* git reset --hard origin/main exits with 0; its stderr is not read
           /\ t.pc = "reset"
           /\ \E r \in Revs : head' = r
           /\ \E d \in Diagnostics :
                tasks' = [tasks EXCEPT ![i].pc = "rev2", ![i].stderr = d]
           /\ UNCHANGED wire
        \/ /\ t.pc = "rev2"
           /\ IF alreadyUpToDate(t.before, head)
                THEN /\ wire' = sendAll(wire, ws, readyState, upToDate(c))
                     /\ tasks' = [tasks EXCEPT
                          ![i].pc = "done", ![i].after = head,
                          ![i].reports = @ \o sent(ws, readyState, upToDate(c))]
                ELSE /\ tasks' = [tasks EXCEPT ![i].pc = "npm", ![i].after = head]
                     /\ UNCHANGED wire
           /\ UNCHANGED head
        \/ /\ t.pc = "npm"
           /\ report(i, "wait", <<agentUpdated(t.after, c)>>)
           /\ UNCHANGED head
  /\ UNCHANGED <<alive, started, chanVars, agentKey, ticks, nTicks, received>>

----------------------------------------------------------------------------
(* handleRollbackAgent *)

RollbackFailed(c) == Msg("rollback_operation", "none", "failed", Info("error", "none", 0), c)

RollbackCompleted(commitId, c) ==
  Msg("rollback_operation", "none", "completed", Info("version", commitId, 0), c)

\* An awaited git / npm command of handleRollbackAgent finishes.
RollbackAgentStep(i) ==
  /\ alive /\ i \in DOMAIN tasks
  /\ tasks[i].h = "handleRollbackAgent"
  /\ tasks[i].pc \in {"fetch", "reset", "npm"}
  /\ LET t == tasks[i]
         c == t.cmd
         commitId == received[c].commitId
     IN \/ /\ fail(i, <<RollbackFailed(c)>>)
           /\ UNCHANGED head
        \/ /\ t.pc = "fetch"
           /\ tasks' = [tasks EXCEPT ![i].pc = "reset"]
           /\ UNCHANGED <<wire, head>>
        \/ \* git reset --hard ${commitId} succeeds only for a revision
           /\ t.pc = "reset"
           /\ commitId \in Revs
           /\ head' = commitId
           /\ \E d \in Diagnostics :
                tasks' = [tasks EXCEPT ![i].pc = "npm", ![i].stderr = d]
           /\ UNCHANGED wire
        \/ /\ t.pc = "npm"
           /\ report(i, "wait", <<RollbackCompleted(commitId, c)>>)
           /\ UNCHANGED head
  /\ UNCHANGED <<alive, started, chanVars, agentKey, ticks, nTicks, received>>

RestartExitAfterFailure(i) ==
  /\ alive /\ i \in DOMAIN tasks
  /\ tasks[i].pc \in {"wait", "done"}
  /\ alive' = FALSE
  /\ tasks' = [tasks EXCEPT ![i].pc = "exited"]
  /\ UNCHANGED <<started, chanVars, agentKey, ticks, nTicks, wire, received, head>>

\* The 1000 ms wait of handleUpdateAgent / handleRollbackAgent is over:
\* process.exit(0).
RestartExit(i) ==
  /\ alive /\ i \in DOMAIN tasks
  /\ tasks[i].pc = "wait"
  /\ alive' = FALSE
  /\ tasks' = [tasks EXCEPT ![i].pc = "exited"]
  /\ UNCHANGED <<started, chanVars, agentKey, ticks, nTicks, wire, received, head>>

----------------------------------------------------------------------------
(* handleSystemUpdate *)

SystemFailed(info, c) == Msg("status", "system_update", "failed", info, c)

\* The awaited test -f / chmod +x of handleSystemUpdate finishes.
SystemUpdateStep(i) ==
  /\ alive /\ i \in DOMAIN tasks
  /\ tasks[i].h = "handleSystemUpdate"
  /\ tasks[i].pc \in {"test", "chmod"}
  /\ LET t == tasks[i]
         c == t.cmd
     IN \/ fail(i, <<SystemFailed(Info(IF t.pc = "test" THEN "script not found"
                                          ELSE "error", "none", 0), c)>>)
        \/ /\ t.pc = "test"
           /\ tasks' = [tasks EXCEPT ![i].pc = "chmod"]
           /\ UNCHANGED wire
        \/ \* chmod succeeded: the script is spawned
           /\ t.pc = "chmod"
           /\ tasks' = [tasks EXCEPT ![i].pc = "child"]
           /\ UNCHANGED wire
  /\ UNCHANGED <<alive, started, chanVars, agentKey, ticks, nTicks, received, head>>

RECURSIVE sumChunks(_)
sumChunks(ts) == IF ts = <<>> THEN 0 ELSE Head(ts).chunks + sumChunks(Tail(ts))

\* Chunks read so far from all update scripts.
nChunks == sumChunks(tasks)

\* The running report of the n-th chunk, read from stream.
running(stream, n, c) ==
  Msg("status", "system_update", "running", Info("chunk", stream, n), c)

\* child.stdout.on('data') / child.stderr.on('data'): one running report per chunk.
ChildData(i, stream) ==
  /\ alive /\ i \in DOMAIN tasks
  /\ tasks[i].h = "handleSystemUpdate" /\ tasks[i].pc = "child"
  /\ nChunks < MaxChunks
  /\ LET ms == <<running(stream, tasks[i].chunks + 1, tasks[i].cmd)>>
     IN /\ wire' = sendAll(wire, ws, readyState, ms)
        /\ tasks' = [tasks EXCEPT ![i].chunks = @ + 1,
                                  ![i].reports = @ \o sent(ws, readyState, ms)]
  /\ UNCHANGED <<alive, started, chanVars, agentKey, ticks, nTicks, received, head>>

\* The reports of the child's 'close' event with exit code code; settled tells
\* that the promise was already rejected by the 'error' event.
closeReports(code, settled, c) ==
  IF code = 0
    THEN <<Msg("status", "system_update", "completed",
               Info("System update completed successfully", "fullOutput", 0), c)>>
  ELSE IF ~settled
    THEN <<SystemFailed(Info("System update failed with exit code", "fullOutput", code), c),
           SystemFailed(Info("System update failed with exit code", "none", code), c)>>
  ELSE <<SystemFailed(Info("System update failed with exit code", "fullOutput", code), c)>>

\* child.on('close', code): code 0 reports completed and resolves; any other
\* code reports failed and rejects, and the handler's catch reports failed again.
\* After a spawn error the promise is already settled: only the report is sent.
ChildClose(i, code) ==
  /\ alive /\ i \in DOMAIN tasks
  /\ tasks[i].h = "handleSystemUpdate" /\ tasks[i].pc \in {"child", "errored"}
  /\ tasks[i].pc = "errored" => code # 0
  /\ LET ms == closeReports(code, tasks[i].pc = "errored", tasks[i].cmd)
     IN /\ wire' = sendAll(wire, ws, readyState, ms)
        /\ tasks' = [tasks EXCEPT ![i].pc = "done", ![i].code = code,
                                  ![i].reports = @ \o sent(ws, readyState, ms)]
  /\ UNCHANGED <<alive, started, chanVars, agentKey, ticks, nTicks, received, head>>

\* child.on('error'): the script could not be spawned; the handler reports
\* failed and rejects, and the handler's catch reports failed again.
ChildError(i) ==
  /\ alive /\ i \in DOMAIN tasks
  /\ tasks[i].h = "handleSystemUpdate" /\ tasks[i].pc = "child"
  /\ tasks[i].chunks = 0
  /\ report(i, "errored",
            <<SystemFailed(Info("Process spawn error", "spawn", 0), tasks[i].cmd),
              SystemFailed(Info("spawn", "none", 0), tasks[i].cmd)>>)
  /\ UNCHANGED <<alive, started, chanVars, agentKey, ticks, nTicks, received, head>>

----------------------------------------------------------------------------
(* Specification *)

Init ==
  /\ alive = TRUE
  /\ started = FALSE
  /\ ws = 0
  /\ readyState = [s \in Sockets |-> "NONE"]
  /\ keyUsed = [s \in Sockets |-> "none"]
  /\ agentKey = "k0"
  /\ statusInterval = 0
  /\ activeIntervals = {}
  /\ timerStart = [i \in IntervalIds |-> 0]
  /\ reconnectTimers = <<>>
  /\ failStreak = 0
  /\ ticks = <<>>
  /\ nTicks = 0
  /\ wire = <<>>
  /\ received = <<>>
  /\ tasks = <<>>
  /\ head = "r1"

Next ==
  \/ Start
  \/ \E s \in Sockets : OnOpen(s)
  \/ \E s \in Sockets : OnError(s)
  \/ \E s \in Sockets : PeerClose(s)
  \/ \E s \in Sockets : OnClose(s)
  \/ ReconnectFire
  \/ \E iv \in IntervalIds : HeartbeatFire(iv)
  \/ StatusCollected
  \/ \E s \in Sockets, f \in Frames : OnMessage(s, f)
  \/ \E i \in 1..MaxCmds : UpdateAgentStep(i)
  \/ \E i \in 1..MaxCmds : RollbackAgentStep(i)
  \/ \E i \in 1..MaxCmds : RestartExit(i)
  \/ \E i \in 1..MaxCmds : SystemUpdateStep(i)
  \/ \E i \in 1..MaxCmds, stream \in {"stdout", "stderr"} : ChildData(i, stream)
  \/ \E i \in 1..MaxCmds, code \in {0, 1} : ChildClose(i, code)
  \/ \E i \in 1..MaxCmds : ChildError(i)

Spec == Init /\ [][Next]_vars

\* Fair scheduling of the reconnect timer: a pending setTimeout callback runs
\* as long as the process does.
LiveSpec == Spec /\ WF_vars(ReconnectFire)

----------------------------------------------------------------------------
(* Properties of the control channel *)

\* Sockets whose 'close' event is still to come.
Live == {s \in Sockets : readyState[s] \in {"CONNECTING", "OPEN", "CLOSING"}}

CloseHandled(s) == readyState[s] = "CLOSING" /\ readyState'[s] = "CLOSED"

ConnectAttempt(s) == readyState[s] # "CONNECTING" /\ readyState'[s] = "CONNECTING"

Opened(s) == readyState[s] = "CONNECTING" /\ readyState'[s] = "OPEN"

StatusUpdatesOnWire == {i \in DOMAIN wire : wire[i].type = "status_update"}

FramesOf(c) == {i \in DOMAIN wire : wire[i].cmd = c}

TasksOf(c) == {j \in DOMAIN tasks : tasks[j].cmd = c}

\* C1: every handled close, of a connection that had opened or of an attempt
\* that failed before opening, schedules exactly one reconnect timer with the
\* fixed delay of 5000 ms; every later connect attempt consumes exactly one such
\* timer; so a socket that is not closed and a pending timer never coexist, and
\* once started the agent always has exactly one of the two.
C1_OneReconnectPerClose ==
  /\ [](started => Cardinality(Live) + Len(reconnectTimers) = 1)
  /\ [][/\ \A s \in Sockets :
             CloseHandled(s) => reconnectTimers' = Append(reconnectTimers, 5000)
        /\ \A s \in Sockets :
             (started /\ ConnectAttempt(s)) =>
               /\ reconnectTimers # <<>>
               /\ reconnectTimers' = Tail(reconnectTimers)]_vars

\* A reconnect attempt is under way after one connection had opened and closed
\* and a later attempt failed before opening.
C1_Witness ==
  /\ ws # 0 /\ readyState[ws] = "CONNECTING"
  /\ statusInterval # 0
  /\ failStreak >= 1

\* C2: while the process is alive and no socket is live, a reconnect timer is
\* pending (the agent has not given up), and under fair timer scheduling a new
\* connect attempt follows, whatever the number of consecutive failed attempts.
C2_ReconnectUnbounded ==
  /\ []((alive /\ started /\ Live = {}) => reconnectTimers # <<>>)
  /\ ((alive /\ started /\ Live = {})
        ~> (~alive \/ \E s \in Sockets : readyState[s] = "CONNECTING"))

\* A connect attempt made after MaxStreak consecutive attempts failed.
C2_Witness ==
  /\ alive /\ ws # 0 /\ readyState[ws] = "CONNECTING"
  /\ failStreak = MaxStreak

\* C3: at most one socket is connecting or open, at most one reconnect timer is
\* pending, and while a socket is connecting every other socket has closed.
C3_SingleConnection ==
  /\ Cardinality({s \in Sockets : readyState[s] \in {"CONNECTING", "OPEN"}}) <= 1
  /\ Len(reconnectTimers) <= 1
  /\ \A s \in Sockets :
       readyState[s] = "CONNECTING" =>
         \A u \in Sockets \ {s} : readyState[u] \in {"NONE", "CLOSED"}

\* The reconnect timer is pending after a connection that had opened was closed.
C3_Witness ==
  /\ Len(reconnectTimers) = 1
  /\ ws # 0 /\ readyState[ws] = "CLOSED"
  /\ wire # <<>>

\* C4: on every connection that has opened, the first two frames on the wire
\* are agent_connected and clear_command_state, in this order, and the
\* heartbeat timer of the connection was set when exactly these two had been sent.
C4_OpenHandshakeOrder ==
  (ws # 0 /\ (wire # <<>> \/ readyState[ws] = "OPEN")) =>
    /\ Len(wire) >= 2
    /\ wire[1].type = "agent_connected"
    /\ wire[2].type = "clear_command_state"
    /\ readyState[ws] = "OPEN" =>
         /\ statusInterval \in activeIntervals
         /\ timerStart[statusInterval] = 2

\* A reconnect has opened: the third frame of the connection is the terminal
\* report of a command whose starting report went out on an earlier connection.
C4_Witness ==
  /\ ws # 0 /\ readyState[ws] = "OPEN"
  /\ Len(wire) >= 3
  /\ wire[3].cmd = 1 /\ wire[3].status \in {"completed", "failed"}
  /\ wire[3].type # "key_rotation"

\* C5 (amended): once a close has been handled, and until the next open, no
\* heartbeat timer is active and every heartbeat callback still collecting
\* telemetry was started by a firing before that close.
C5_NoHeartbeatAfterClose ==
  (ws # 0 /\ readyState[ws] \in {"CLOSED", "CONNECTING"}) =>
    /\ activeIntervals = {}
    /\ \A i \in DOMAIN ticks : ticks[i].stale

\* A close was handled while a heartbeat callback was collecting telemetry.
C5_Witness ==
  /\ ws # 0 /\ readyState[ws] = "CLOSED"
  /\ statusInterval # 0
  /\ ticks # <<>> /\ ticks[1].stale

\* C5 as stated: in addition, no status_update of a firing that preceded a
\* close is emitted after that close.
C5_Original ==
  /\ C5_NoHeartbeatAfterClose
  /\ \A i \in DOMAIN wire :
       wire[i].type = "status_update" => wire[i].info[2] # "afterClose"

\* C6: at most one heartbeat timer is active, it is the one this.statusInterval
\* names, and the heartbeat firings so far have produced at most one
\* status_update each.
C6_SingleHeartbeat ==
  /\ Cardinality(activeIntervals) <= 1
  /\ activeIntervals \subseteq {statusInterval}
  /\ Cardinality(StatusUpdatesOnWire) + Len(ticks) <= nTicks

\* The heartbeat runs on a second connection: the firing counted so far went
\* out on (or was dropped after) an earlier one.
C6_Witness ==
  /\ ws # 0 /\ readyState[ws] = "OPEN"
  /\ activeIntervals = {statusInterval}
  /\ nTicks >= 1 /\ ticks = <<>>
  /\ StatusUpdatesOnWire = {}

\* The positions of wire' that this step has written.
NewFrames ==
  IF Len(wire') >= Len(wire) /\ SubSeq(wire', 1, Len(wire)) = wire
    THEN {i \in DOMAIN wire' : i > Len(wire)}
    ELSE DOMAIN wire'

\* C7: a frame reaches the wire only in the callback that calls send() for it
\* and only while this.ws is OPEN: a report of a command in the step that
\* delivers the command or advances its handler, a status_update in the step
\* that ends telemetry collection, an announcement in the open handler.  A
\* payload sent while the transport is not open therefore never appears later.
C7_SendOnlyWhenOpen ==
  [][\A i \in NewFrames :
         /\ wire'[i].rs = "OPEN"
         /\ ws' = ws /\ readyState'[ws'] = "OPEN"
         /\ wire'[i].cmd > 0 =>
              \/ Len(received') > Len(received) /\ wire'[i].cmd = Len(received')
              \/ \E j \in DOMAIN tasks :
                   tasks[j].cmd = wire'[i].cmd /\ tasks'[j] # tasks[j]
         /\ wire'[i].type = "status_update" => Len(ticks') < Len(ticks)
         /\ wire'[i].type \in {"agent_connected", "clear_command_state"} =>
              Opened(ws)]_vars

\* A handler finished on the connection that had carried its starting report,
\* after the transport had left the open state: its terminal report was dropped.
C7_Witness ==
  /\ ws # 0 /\ readyState[ws] \in {"CLOSING", "CLOSED"}
  /\ \E j \in DOMAIN tasks :
       /\ tasks[j].pc = "done"
       /\ \E i \in FramesOf(tasks[j].cmd) : wire[i].status = "starting"
       /\ \A i \in FramesOf(tasks[j].cmd) :
            wire[i].status \notin {"completed", "failed"}

----------------------------------------------------------------------------
(* Properties of the dispatcher *)

Delivered == Len(received') = Len(received) + 1

\* C8: the delivery of a decoded frame whose type is none of the table's kinds
\* appends exactly one error frame naming that type and changes nothing else:
\* no handler starts, and the connection, the heartbeat timer, the agent key
\* and the process are as before.
C8_UnknownTypeOnlyError ==
  [][(Delivered /\ received'[Len(received')].kind = "obj"
                /\ received'[Len(received')].type \notin TableKinds) =>
       /\ Len(wire') = Len(wire) + 1
       /\ SubSeq(wire', 1, Len(wire)) = wire
       /\ wire'[Len(wire')].type = "error"
       /\ wire'[Len(wire')].info[2] = received'[Len(received')].type
       /\ UNCHANGED <<alive, started, chanVars, agentKey, ticks, nTicks, tasks, head>>]_vars

\* A frame of type "bogus" was answered by the error frame that names it.
C8_Witness ==
  \E i \in DOMAIN wire :
    /\ wire[i].type = "error"
    /\ wire[i].info = Info("Unknown message type", "bogus", 0)

\* C9: every delivered frame of one of the ten kinds of the table has had a
\* handler invoked for it and was not answered as an unrecognized type.
C9_TableKindsRouted ==
  \A c \in DOMAIN received :
    (received[c].kind = "obj" /\ received[c].type \in TableKinds) =>
      /\ TasksOf(c) # {}
      /\ \A i \in FramesOf(c) : wire[i].info[1] # "Unknown message type"

\* C10: the delivery of a frame either starts exactly one handler and sends no
\* error frame, or starts none and sends exactly one error frame; no command
\* ever has more than one handler invocation, no invocation appears at any
\* other time, and an invocation that has finished stays finished.
C10_OneHandlerOrError ==
  /\ [](\A c \in 1..MaxCmds : Cardinality(TasksOf(c)) <= 1)
  /\ [][/\ Delivered =>
             LET c == Len(received')
                 new == {j \in DOMAIN tasks' : j > Len(tasks)}
                 errs == {i \in DOMAIN wire' : i > Len(wire) /\ wire'[i].type = "error"}
             IN /\ \A j \in new : tasks'[j].cmd = c
                /\ \/ Cardinality(new) = 1 /\ errs = {}
                   \/ new = {} /\ Cardinality(errs) = 1
        /\ ~Delivered => Len(tasks') = Len(tasks)
        /\ \A j \in DOMAIN tasks :
             /\ tasks'[j].cmd = tasks[j].cmd /\ tasks'[j].h = tasks[j].h
             /\ tasks[j].pc \in {"done", "exited"} => tasks'[j] = tasks[j]]_vars

\* A command's handler has finished, the connection has since been replaced
\* and has opened, and the command still has its single invocation.
C10_Witness ==
  /\ ws # 0 /\ readyState[ws] = "OPEN"
  /\ Len(received) = 1 /\ Len(tasks) = 1
  /\ tasks[1].pc = "done"
  /\ FramesOf(1) = {}

\* C11: the delivery of a frame that does not decode to a message object
\* (text that is not JSON, or the JSON text null) appends exactly one error
\* frame carrying the description of the failure and the raw frame, starts no
\* handler, and leaves the connection, the reconnect timers, the heartbeat
\* timer, the agent key and the process as they were.
C11_DecodeFailureOnlyError ==
  [][(Delivered /\ received'[Len(received')].kind \in {"bad", "null"}) =>
       /\ Len(wire') = Len(wire) + 1
       /\ SubSeq(wire', 1, Len(wire)) = wire
       /\ wire'[Len(wire')].type = "error"
       /\ wire'[Len(wire')].info[1] \in {"SyntaxError", "TypeError"}
       /\ wire'[Len(wire')].info[2] = received'[Len(received')].kind
       /\ UNCHANGED <<alive, started, chanVars, agentKey, ticks, nTicks, tasks, head>>]_vars

\* A frame that is not JSON was answered by an error frame echoing it; the
\* connection is open, its heartbeat timer is set and no reconnect is pending.
C11_Witness ==
  /\ ws # 0 /\ readyState[ws] = "OPEN"
  /\ activeIntervals = {statusInterval} /\ reconnectTimers = <<>>
  /\ tasks = <<>>
  /\ \E i \in DOMAIN wire :
       /\ wire[i].type = "error"
       /\ wire[i].info = Info("SyntaxError", "bad", 0)
       /\ received[wire[i].cmd].kind = "bad"

----------------------------------------------------------------------------
(* Properties of the handlers *)

\* The reports invocation j passes to send() in this step.
Gained(j) ==
  IF j \in DOMAIN tasks
    THEN SubSeq(tasks'[j].reports, Len(tasks[j].reports) + 1, Len(tasks'[j].reports))
    ELSE tasks'[j].reports

\* Invocation j ends in this step (for a spawn error: its promise is rejected).
Ending(j) ==
  /\ tasks'[j].pc \in {"done", "errored"}
  /\ j \in DOMAIN tasks => tasks[j].pc \notin {"done", "errored"}

IsFailure(m) == m.status = "failed" \/ m.type = "error"

\* C12: an invocation never ends silently: the step in which it ends passes a
\* report to send(), and that report is a failure report (the handler's own
\* failed report, or an error report) unless the handler succeeded; the step
\* in which an invocation reports a failure leaves the connection, the
\* reconnect timers, the heartbeat timer and the process as they were.
C12_HandlerFailureReported ==
  [][\A j \in DOMAIN tasks' :
       /\ Ending(j) =>
            /\ Gained(j) # <<>>
            /\ \A k \in DOMAIN Gained(j) :
                 IsFailure(Gained(j)[k]) \/ Gained(j)[k].status \in {"completed", "success"}
       /\ (\E k \in DOMAIN Gained(j) : IsFailure(Gained(j)[k])) =>
            UNCHANGED <<alive, chanVars, ticks>>]_vars

\* A handler has failed and its failed report is on the wire of the
\* connection, which is still open with its heartbeat timer set; the process runs.
C12_Witness ==
  /\ alive /\ ws # 0 /\ readyState[ws] = "OPEN"
  /\ activeIntervals = {statusInterval} /\ reconnectTimers = <<>>
  /\ \E j \in DOMAIN tasks :
       /\ tasks[j].h = "handleUpdateAgent" /\ tasks[j].pc = "done"
       /\ \E i \in FramesOf(tasks[j].cmd) : wire[i].status = "failed"

\* C13: once a key_rotation command carrying newKey has been delivered, the
\* agent key is newKey, the command's only report is key_rotation completed,
\* and every connection attempt under way presents the agent key.
C13_KeyRotated ==
  \A c \in DOMAIN received :
    received[c].type = "key_rotation" =>
      /\ agentKey = received[c].newKey
      /\ \A j \in TasksOf(c) :
           /\ Len(tasks[j].reports) = 1
           /\ tasks[j].reports[1].status = "completed"
      /\ \A s \in Sockets : readyState[s] = "CONNECTING" => keyUsed[s] = agentKey

\* C14: an update_agent invocation whose revision after the reset equals the
\* revision before it has ended with exactly the reports starting, status
\* completed "Agent code is already up to date." and agent_updated; it never
\* reaches the npm install, the wait or the exit, and if the process has
\* exited, another invocation did it.
C14_UpToDateNoRestart ==
  \A j \in DOMAIN tasks :
    (tasks[j].h = "handleUpdateAgent" /\ tasks[j].after # "none"
       /\ tasks[j].before = tasks[j].after) =>
      /\ tasks[j].pc = "done"
      /\ Len(tasks[j].reports) = 3
      /\ tasks[j].reports[2].status = "completed"
      /\ tasks[j].reports[2].info[1] = "Agent code is already up to date."
      /\ tasks[j].reports[3].type = "agent_updated"
      /\ ~alive => \E k \in DOMAIN tasks : k # j /\ tasks[k].pc = "exited"

\* An update found the revision unchanged and its completed report was
\* transmitted; the process runs and the connection is open.
C14_Witness ==
  /\ alive /\ ws # 0 /\ readyState[ws] = "OPEN"
  /\ \E j \in DOMAIN tasks :
       /\ tasks[j].h = "handleUpdateAgent" /\ tasks[j].pc = "done"
       /\ tasks[j].before = "r1" /\ tasks[j].after = "r1"
       /\ tasks[j].reports[2].tx

\* C15: an invocation of handleUpdateAgent or handleRollbackAgent that has
\* exited the process had its report carrying the new revision (agent_updated
\* success, or rollback_operation completed) transmitted on the transport.
C15_ReportBeforeExit ==
  \A j \in DOMAIN tasks :
    tasks[j].pc = "exited" =>
      \E k \in DOMAIN tasks[j].reports :
        /\ tasks[j].reports[k].status \in {"completed", "success"}
        /\ tasks[j].reports[k].info[1] = "version"
        /\ tasks[j].reports[k].tx

\* C16: an invocation of handleRollbackAgent for a command without commitId
\* has ended at once with a failed report: it never awaits git fetch, git
\* reset or npm install, never waits for the exit and never exits.
C16_RollbackNeedsCommitId ==
  \A j \in DOMAIN tasks :
    (tasks[j].h = "handleRollbackAgent" /\ received[tasks[j].cmd].commitId = "none") =>
      /\ tasks[j].pc \notin {"fetch", "reset", "npm", "wait", "exited"}
      /\ \E k \in DOMAIN tasks[j].reports : tasks[j].reports[k].status = "failed"

\* Invocation j went through every step of an update that changed the
\* revision, or of a rollback to a revision, and reported no failure.
Succeeded(j) ==
  /\ \/ /\ tasks[j].h = "handleUpdateAgent"
        /\ tasks[j].after # "none" /\ tasks[j].before # tasks[j].after
     \/ /\ tasks[j].h = "handleRollbackAgent"
        /\ received[tasks[j].cmd].commitId \in Revs
  /\ \A k \in DOMAIN tasks[j].reports : ~IsFailure(tasks[j].reports[k])
  /\ tasks[j].reports[Len(tasks[j].reports)].info[1] = "version"

\* C17: the process has exited only if an invocation exited it, and only an
\* update that changed the revision or a rollback that succeeded ever waits
\* for the exit or exits; an invocation that reported a failure, and every
\* other handler, does neither.
C17_ExitOnlyAfterSuccess ==
  /\ ~alive => \E j \in DOMAIN tasks : tasks[j].pc = "exited"
  /\ \A j \in DOMAIN tasks : tasks[j].pc \in {"wait", "exited"} => Succeeded(j)

\* The process has exited after a rollback, while an update_agent command
\* that had failed is among the finished invocations.
C17_Witness ==
  /\ ~alive
  /\ \E j \in DOMAIN tasks :
       tasks[j].h = "handleRollbackAgent" /\ tasks[j].pc = "exited"
  /\ \E j \in DOMAIN tasks :
       /\ tasks[j].h = "handleUpdateAgent" /\ tasks[j].pc = "done"
       /\ \E k \in DOMAIN tasks[j].reports : tasks[j].reports[k].status = "failed"

\* C18: every delivered create_site, delete_site or system_update command
\* runs its subprocess-backed handler; an invocation whose child exited with
\* code 0 has ended with a completed report that carries the captured
\* standard output, and one whose child exited with another code has a failed
\* report whose message carries that code and the captured standard error.
C18_ExitCodeDecidesReport ==
  /\ \A c \in DOMAIN received :
       received[c].type \in {"create_site", "delete_site", "system_update"} =>
         TasksOf(c) # {}
  /\ \A j \in DOMAIN tasks :
       LET r == tasks[j].reports
       IN /\ tasks[j].code = 0 =>
               /\ r[Len(r)].status = "completed"
               /\ r[Len(r)].info[2] \in {"stdout", "fullOutput"}
          /\ tasks[j].code \notin {0, NoCode} =>
               \E k \in DOMAIN r :
                 /\ r[k].status = "failed"
                 /\ r[k].info[3] = tasks[j].code
                 /\ r[k].info[2] = "stderr"

RunningOf(j) == {k \in DOMAIN tasks[j].reports : tasks[j].reports[k].status = "running"}

FinalOf(j) ==
  {k \in DOMAIN tasks[j].reports : tasks[j].reports[k].status \in {"completed", "failed"}}

\* The running reports of a system_update invocation are one per chunk read,
\* numbered in arrival order, and precede every completed or failed report.
ChunksStreamedInOrder(j) ==
  /\ Cardinality(RunningOf(j)) = tasks[j].chunks
  /\ \A k \in RunningOf(j) :
       tasks[j].reports[k].info[3] = Cardinality({m \in RunningOf(j) : m <= k})
  /\ \A k \in RunningOf(j) : \A f \in FinalOf(j) : k < f

\* C19: for every system_update invocation, the running reports are one per
\* chunk read from stdout or stderr, in arrival order, all before the final
\* report; there is at most one completed or failed report, and once the
\* child has exited there is exactly one: completed for exit code 0, failed
\* for any other.
C19_ChunksThenOneFinal ==
  \A j \in DOMAIN tasks :
    tasks[j].h = "handleSystemUpdate" =>
      /\ ChunksStreamedInOrder(j)
      /\ Cardinality(FinalOf(j)) <= 1
      /\ tasks[j].code # NoCode =>
           \E f \in FinalOf(j) :
             tasks[j].reports[f].status = IF tasks[j].code = 0 THEN "completed" ELSE "failed"

\* Every running, completed or failed report of invocation j comes after a
\* starting report of the same invocation.
StartingFirst(j) ==
  \A k \in DOMAIN tasks[j].reports :
    tasks[j].reports[k].status \in {"running", "completed", "failed"} =>
      \E m \in 1..(k - 1) : tasks[j].reports[m].status = "starting"

\* C20: for every command, each running, completed or failed report of its
\* operation is preceded by the operation's starting report; a delivered
\* create_site command has an invocation whose first report is starting.
C20_StartingPrecedes ==
  /\ \A j \in DOMAIN tasks : StartingFirst(j)
  /\ \A c \in DOMAIN received :
       received[c].type = "create_site" =>
         \E j \in TasksOf(c) : tasks[j].reports[1].status = "starting"

\* C21: an update_agent or rollback_agent invocation whose git reset exited
\* with 0 but wrote a failure marker to its standard error goes on to no
\* further step and to no restart, sends no completed or success report, and
\* once it has ended its last report is failed.
C21_MarkerMeansFailed ==
  \A j \in DOMAIN tasks :
    tasks[j].stderr = "fatal:" =>
      /\ tasks[j].pc \notin {"npm", "wait", "exited"}
      /\ \A k \in DOMAIN tasks[j].reports :
           tasks[j].reports[k].status \notin {"completed", "success"}
      /\ tasks[j].pc = "done" =>
           tasks[j].reports[Len(tasks[j].reports)].status = "failed"

\* C22: every delivered redeploy_ssl command is answered by site_operation
\* reports of an invocation of its handler and by no error frame, and an
\* invocation that has ended has exactly one completed report with operation
\* redeploy_ssl and no failed report.
C22_RedeployOneCompleted ==
  \A c \in DOMAIN received :
    received[c].type = "redeploy_ssl" =>
      /\ \E j \in DOMAIN tasks : tasks[j].cmd = c /\ tasks[j].reports # <<>>
      /\ \A i \in FramesOf(c) : wire[i].type # "error"
      /\ \A j \in TasksOf(c) :
           tasks[j].pc = "done" =>
             /\ Cardinality({k \in DOMAIN tasks[j].reports :
                               /\ tasks[j].reports[k].op = "redeploy_ssl"
                               /\ tasks[j].reports[k].status = "completed"}) = 1
             /\ \A k \in DOMAIN tasks[j].reports : tasks[j].reports[k].status # "failed"

\* C23: the reports of every invocation hold at most one completed or failed
\* report, exactly one once the invocation has ended, and nothing follows it
\* but the agent_updated announcement of an update.
C23_OneTerminalReport ==
  \A j \in DOMAIN tasks :
    /\ Cardinality(FinalOf(j)) <= 1
    /\ tasks[j].pc = "done" => Cardinality(FinalOf(j)) = 1
    /\ \A f \in FinalOf(j) : \A k \in DOMAIN tasks[j].reports :
         k > f => tasks[j].reports[k].type = "agent_updated"

----------------------------------------------------------------------------
(* Properties of connection loss and concurrency *)

\* The transport of socket s fails or starts closing; its 'close' event is
\* still to come.
Failing(s) == readyState[s] \in {"CONNECTING", "OPEN"} /\ readyState'[s] = "CLOSING"

\* C24: the step in which the transport of a socket fails, before its close
\* is handled, changes nothing but that socket's readyState: the heartbeat
\* timer stays set, no reconnect timer is added and no socket is created; a
\* reconnect timer is added only by the step that handles a close.
C24_ErrorChangesNothing ==
  [][/\ \A s \in Sockets :
          Failing(s) =>
            /\ \A u \in Sockets \ {s} : readyState'[u] = readyState[u]
            /\ UNCHANGED <<alive, started, ws, keyUsed, agentKey, statusInterval,
                           activeIntervals, timerStart, reconnectTimers, failStreak,
                           ticks, nTicks, wire, received, tasks, head>>
     /\ Len(reconnectTimers') > Len(reconnectTimers) =>
          \E s \in Sockets : CloseHandled(s)]_vars

\* The transport of the open connection has failed and its close is not yet
\* handled: the heartbeat timer is still set, a heartbeat callback it fired
\* is collecting telemetry, and no reconnect is pending.
C24_Witness ==
  /\ ws # 0 /\ readyState[ws] = "CLOSING"
  /\ activeIntervals = {statusInterval}
  /\ reconnectTimers = <<>>
  /\ ticks # <<>>

\* A step of invocation j: the awaited subprocess, wait or child event it is
\* at comes to an end.
HandlerStep(j) ==
  \/ UpdateAgentStep(j) \/ RollbackAgentStep(j) \/ RestartExit(j)
  \/ SystemUpdateStep(j) \/ ChildError(j)
  \/ \E code \in {0, 1} : ChildClose(j, code)

InFlight(j) == tasks[j].pc \notin {"done", "exited"}

\* C25: the steps that handle a close, start a connection attempt or open a
\* connection leave every handler invocation, the working tree and the
\* process exactly as they were; and whatever the state of the connection,
\* every invocation in flight of a running process can take its next step.
C25_CloseKeepsHandlers ==
  /\ [][(\E s \in Sockets : CloseHandled(s) \/ ConnectAttempt(s) \/ Opened(s)) =>
          UNCHANGED <<tasks, received, head, alive, agentKey>>]_vars
  /\ [](\A j \in DOMAIN tasks : (alive /\ InFlight(j)) => ENABLED HandlerStep(j))

\* A reconnect attempt is under way after the connection that delivered a
\* system_update command was closed; the update script is still running and a
\* chunk it wrote after the transport had left the open state was read.
C25_Witness ==
  /\ ws # 0 /\ readyState[ws] = "CONNECTING"
  /\ activeIntervals = {}
  /\ \E j \in DOMAIN tasks :
       /\ tasks[j].pc = "child"
       /\ \E k \in DOMAIN tasks[j].reports :
            tasks[j].reports[k].status = "running" /\ ~tasks[j].reports[k].tx

\* C26: neither a handler invocation in flight nor a heartbeat callback in
\* flight holds up the delivery of the next frame, the firing of the heartbeat
\* timer or the end of telemetry collection: whenever the connection is open
\* every frame can be delivered, whenever the heartbeat timer is set it can
\* fire, and whenever a heartbeat callback is collecting it can finish.
C26_NotSerialized ==
  /\ (alive /\ ws # 0 /\ readyState[ws] = "OPEN"
        /\ Len(received) < MaxCmds /\ Len(received) + nTicks < MaxEvents) =>
       \A f \in Frames : ENABLED OnMessage(ws, f)
  /\ (alive /\ nTicks < MaxTicks /\ Len(received) + nTicks < MaxEvents) =>
       \A iv \in activeIntervals : ENABLED HeartbeatFire(iv)
  /\ (alive /\ ticks # <<>>) => ENABLED StatusCollected

\* Two commands delivered back to back are in flight at the same time: an
\* update_agent that has reset the working tree and is running npm install,
\* and a system_update whose script is running.
C26_Witness ==
  /\ Len(tasks) = 2
  /\ tasks[1].h = "handleUpdateAgent" /\ tasks[1].pc = "npm"
  /\ tasks[2].h = "handleSystemUpdate" /\ tasks[2].pc = "child"
  /\ tasks[2].chunks >= 1

\* Command c was delivered on a connection earlier than the current one: the
\* starting report of its invocation j is not among the frames of this.ws.
DeliveredEarlier(j) ==
  /\ tasks[j].reports # <<>>
  /\ tasks[j].reports[1].status = "starting"
  /\ \A i \in FramesOf(tasks[j].cmd) : wire[i].status # "starting"

\* C27: a report passed to send() goes out on the socket that is this.ws at
\* that moment, if it is open, whichever connection delivered the command; so
\* every frame of a command on the wire of the current connection comes after
\* the connection's agent_connected and clear_command_state, also when the
\* command was delivered on an earlier connection.
C27_ReportsOnCurrentTransport ==
  /\ [][\A j \in DOMAIN tasks :
          \A k \in DOMAIN Gained(j) :
            /\ Gained(j)[k].tx <=> (ws # 0 /\ readyState[ws] = "OPEN")
            /\ Gained(j)[k].tx =>
                 /\ ws' = ws
                 /\ \E i \in NewFrames :
                      /\ wire'[i].cmd = tasks[j].cmd
                      /\ wire'[i].status = Gained(j)[k].status
                      /\ wire'[i].info = Gained(j)[k].info]_vars
  /\ [](\A i \in DOMAIN wire :
          wire[i].cmd > 0 =>
            /\ i > 2
            /\ wire[1].type = "agent_connected"
            /\ wire[2].type = "clear_command_state")

\* A command delivered on one connection ended after that connection had
\* closed and a new one had opened: its terminal report is the third frame
\* of the new connection, right after the two announcements.
C27_Witness ==
  /\ ws # 0 /\ readyState[ws] = "OPEN"
  /\ \E j \in DOMAIN tasks :
       /\ tasks[j].pc = "done"
       /\ DeliveredEarlier(j)
       /\ tasks[j].reports[Len(tasks[j].reports)].tx
       /\ Len(wire) >= 3
       /\ wire[3].cmd = tasks[j].cmd
       /\ wire[3].status \in {"completed", "failed"}
       /\ wire[2].type = "clear_command_state"

\* The invocations of handleKeyRotation.
Rotations == {j \in DOMAIN tasks : tasks[j].h = "handleKeyRotation"}

\* C28: a key_rotation whose updateKeyFile call fails has reported failed and
\* nothing else; and as long as every key_rotation so far has reported
\* failed, the agent key is the key the process started with and every socket
\* created so far presented that key.
C28_FailedRotationKeepsKey ==
  /\ \A j \in Rotations :
       updateKeyFile(received[tasks[j].cmd].newKey) # "ok" =>
         /\ Len(tasks[j].reports) = 1
         /\ tasks[j].reports[1].type = "key_rotation"
         /\ tasks[j].reports[1].status = "failed"
  /\ (\A j \in Rotations : tasks[j].reports[1].status = "failed") =>
       /\ agentKey = "k0"
       /\ \A s \in Sockets : readyState[s] # "NONE" => keyUsed[s] = "k0"

\* A key_rotation has failed, the connection that delivered it has closed,
\* and the connection attempt that followed presents the previous key.
C28_Witness ==
  /\ Rotations # {}
  /\ \A j \in Rotations : tasks[j].reports[1].status = "failed" /\ tasks[j].reports[1].tx
  /\ ws # 0 /\ readyState[ws] = "CONNECTING"
  /\ keyUsed[ws] = "k0" /\ agentKey = "k0"

====
